---- MODULE Spec2Model ----
(***************************************************************************)
(* Model of src/oop_time.py: class Time, a time of day kept as one slot,   *)
(* _total_seconds.                                                         *)
(*                                                                         *)
(* heap : the Time instances that exist; heap[i] is the _total_seconds     *)
(*        slot of instance i (the index is the object's identity).         *)
(* res  : the outcome of the last call: which operation, its arguments,    *)
(*        whether it returned or raised, the value or the exception.       *)
(*                                                                         *)
(* Python values are records [type, val]; for a Time, val is the heap      *)
(* index.  Text is a sequence of one-character strings.  Arguments are     *)
(* integers where the code's type hints say int (floats are not modelled). *)
(***************************************************************************)
EXTENDS Integers, Sequences, FiniteSets, TLC

VARIABLES heap, res

vars == <<heap, res>>

(* ------------------------------ constants ------------------------------ *)

SecondsPerDay == 86400

SecondsPerHour == 3600

SecondsPerMinute == 60

MaxHours == 23

MaxMinutes == 59

MaxSeconds == 59

UnpackCount == 3

(* ------------------------------- bounds -------------------------------- *)

\* instances alive at once in the object-level specification
MaxObjs == 3

\* how far beyond the valid ranges the single-call specification draws inputs
Slack == 2

\* most colon-separated fields in the texts the single-call specification parses
MaxFields == 4

(* --------------------------- Python values ----------------------------- *)

PyInt(n) == [type |-> "int", val |-> n]

PyBool(b) == [type |-> "bool", val |-> b]

PyStr(s) == [type |-> "str", val |-> s]

PyTime(i) == [type |-> "Time", val |-> i]

PyNone == [type |-> "NoneType", val |-> 0]

\* isinstance(o, Time)
IsTime(o) == o.type = "Time"

\* isinstance(o, int): bool is a subclass of int
IsInt(o) == o.type \in {"int", "bool"}

\* the integer an int (or bool) operand contributes to arithmetic
IntOf(o) == IF o.type = "bool" THEN (IF o.val THEN 1 ELSE 0) ELSE o.val

\* a remainder that takes the sign of the dividend, as C's % does
PyModTrunc(a, b) == IF a < 0 THEN 0 - ((0 - a) % b) ELSE a % b

\* Python's % with a positive divisor is the floored modulo
PyMod(a, b) == a % b

\* Python's // with a positive divisor is the floored division
PyFloorDiv(a, b) == a \div b

(* ----------------------------- exceptions ------------------------------ *)

\* an exception: its class, its message (a format and the values put into
\* it) and its __cause__ (empty, or one exception)
Exc(type, fmt, args, cause) ==
  [type |-> type, msg |-> [fmt |-> fmt, args |-> args], cause |-> cause]

NoExc == Exc("None", "", <<>>, <<>>)

\* outcome records
Returned(op, args, value) ==
  [op |-> op, args |-> args, status |-> "ok", value |-> value, exc |-> NoExc]

Raised(op, args, e) ==
  [op |-> op, args |-> args, status |-> "raise", value |-> 0, exc |-> e]

NoCall == [op |-> "none", args |-> <<>>, status |-> "none", value |-> 0, exc |-> NoExc]

(* --------------------------- Time.__init__ ----------------------------- *)

RangeFmt == "{name} must be between {min_val}-{max_val}, got {value}"

\* _validate_range with the test left out
ValidateRangeNever(value, min_val, max_val, name) == NoExc

\* _validate_range: the exception it raises, or NoExc
ValidateRange(value, min_val, max_val, name) ==
  IF ~(min_val <= value /\ value <= max_val)
    THEN Exc("ValueError", RangeFmt, <<name, min_val, max_val, value>>, <<>>)
    ELSE NoExc

\* __init__ with the checks in the order seconds, minutes, hours
TimeInitSecondsFirst(hours, minutes, seconds) ==
  LET e1 == ValidateRange(seconds, 0, MaxSeconds, "seconds")
      e2 == ValidateRange(minutes, 0, MaxMinutes, "minutes")
      e3 == ValidateRange(hours, 0, MaxHours, "hours")
  IN  IF e1.type # "None" THEN [exc |-> e1, total |-> -1]
      ELSE IF e2.type # "None" THEN [exc |-> e2, total |-> -1]
      ELSE IF e3.type # "None" THEN [exc |-> e3, total |-> -1]
      ELSE [exc |-> NoExc,
            total |-> hours * SecondsPerHour + minutes * SecondsPerMinute + seconds]

\* __init__: [exc, total]; the three checks run in order, the first failure
\* leaves before the slot is assigned
TimeInit(hours, minutes, seconds) ==
  LET e1 == ValidateRange(hours, 0, MaxHours, "hours")
      e2 == ValidateRange(minutes, 0, MaxMinutes, "minutes")
      e3 == ValidateRange(seconds, 0, MaxSeconds, "seconds")
  IN  IF e1.type # "None" THEN [exc |-> e1, total |-> -1]
      ELSE IF e2.type # "None" THEN [exc |-> e2, total |-> -1]
      ELSE IF e3.type # "None" THEN [exc |-> e3, total |-> -1]
      ELSE [exc |-> NoExc,
            total |-> hours * SecondsPerHour + minutes * SecondsPerMinute + seconds]

(* ----------------------------- accessors ------------------------------- *)

hours(total) == PyFloorDiv(total, SecondsPerHour)

\* minutes without the reduction modulo one hour
MinutesNoMod(total) == PyFloorDiv(total, SecondsPerMinute)

minutes(total) == PyFloorDiv(PyMod(total, SecondsPerHour), SecondsPerMinute)

seconds(total) == PyMod(total, SecondsPerMinute)

to_seconds(total) == total

to_tuple(total) == <<hours(total), minutes(total), seconds(total)>>

(* ------------------------- Time.from_seconds --------------------------- *)

SecondsFmt == "Total seconds must represent a valid 24-hour time (0-86399)"

\* from_seconds with the minutes taken from the whole count
TimeFromSecondsNoMod(total_seconds) ==
  IF ~(0 <= total_seconds /\ total_seconds < SecondsPerDay)
    THEN [exc |-> Exc("ValueError", SecondsFmt, <<>>, <<>>), total |-> -1]
    ELSE TimeInit(PyFloorDiv(total_seconds, SecondsPerHour),
                  PyFloorDiv(total_seconds, SecondsPerMinute),
                  PyMod(total_seconds, SecondsPerMinute))

\* from_seconds: [exc, total]
TimeFromSeconds(total_seconds) ==
  IF ~(0 <= total_seconds /\ total_seconds < SecondsPerDay)
    THEN [exc |-> Exc("ValueError", SecondsFmt, <<>>, <<>>), total |-> -1]
    ELSE TimeInit(PyFloorDiv(total_seconds, SecondsPerHour),
                  PyFloorDiv(PyMod(total_seconds, SecondsPerHour), SecondsPerMinute),
                  PyMod(total_seconds, SecondsPerMinute))

(* -------------------------------- text --------------------------------- *)

DigitChars == <<"0", "1", "2", "3", "4", "5", "6", "7", "8", "9">>

IsDigit(c) == \E d \in 1..10 : DigitChars[d] = c

DigitVal(c) == (CHOOSE d \in 1..10 : DigitChars[d] = c) - 1

\* the decimal digits of n >= 0
RECURSIVE Decimal(_)
Decimal(n) ==
  IF n < 10 THEN <<DigitChars[n + 1]>>
  ELSE Decimal(n \div 10) \o <<DigitChars[(n % 10) + 1]>>

\* format(n, "02d"): sign first, then zeros up to a width of two
Fmt02d(n) ==
  LET sign == IF n < 0 THEN <<"-">> ELSE <<>>
      digs == Decimal(IF n < 0 THEN -n ELSE n)
  IN  IF Len(sign) + Len(digs) < 2 THEN sign \o <<"0">> \o digs ELSE sign \o digs

\* __str__ on a twelve-hour clock
TimeStr12h(total) ==
  Fmt02d(PyMod(hours(total), 12)) \o <<":">> \o Fmt02d(minutes(total)) \o <<":">>
    \o Fmt02d(seconds(total))

\* Time.__str__
TimeStr(total) ==
  Fmt02d(hours(total)) \o <<":">> \o Fmt02d(minutes(total)) \o <<":">>
    \o Fmt02d(seconds(total))

\* str.split(':'): the pieces between the colons, empty pieces kept
RECURSIVE Split(_)
Split(t) ==
  IF \E i \in 1..Len(t) : t[i] = ":"
    THEN LET i == CHOOSE k \in 1..Len(t) :
                    t[k] = ":" /\ \A j \in 1..(k - 1) : t[j] # ":"
         IN  <<SubSeq(t, 1, i - 1)>> \o Split(SubSeq(t, i + 1, Len(t)))
    ELSE <<t>>

\* str.strip() as int() applies it (the only whitespace modelled is " ")
RECURSIVE LStrip(_)
LStrip(t) == IF t # <<>> /\ t[1] = " " THEN LStrip(Tail(t)) ELSE t

RECURSIVE RStrip(_)
RStrip(t) ==
  IF t # <<>> /\ t[Len(t)] = " " THEN RStrip(SubSeq(t, 1, Len(t) - 1)) ELSE t

\* value of a digit string with single underscores between digits
RECURSIVE DigitsValue(_, _)
DigitsValue(t, acc) ==
  IF t = <<>> THEN acc
  ELSE IF t[1] = "_" THEN DigitsValue(Tail(t), acc)
  ELSE DigitsValue(Tail(t), acc * 10 + DigitVal(t[1]))

\* int(str): [ok, val]; blanks around, an optional sign, then decimal digits
\* that may be grouped by single underscores
IntParse(field) ==
  LET t == RStrip(LStrip(field))
      signed == t # <<>> /\ t[1] \in {"+", "-"}
      body == IF signed THEN Tail(t) ELSE t
      wellFormed ==
        /\ body # <<>>
        /\ \A i \in 1..Len(body) : IsDigit(body[i]) \/ body[i] = "_"
        /\ IsDigit(body[1]) /\ IsDigit(body[Len(body)])
        /\ \A i \in 1..(Len(body) - 1) : ~(body[i] = "_" /\ body[i + 1] = "_")
  IN  IF ~wellFormed THEN [ok |-> FALSE, val |-> 0]
      ELSE [ok |-> TRUE,
            val |-> IF signed /\ t[1] = "-" THEN -DigitsValue(body, 0)
                    ELSE DigitsValue(body, 0)]

LiteralFmt == "invalid literal for int() with base 10: {!r}"

NotEnoughFmt == "not enough values to unpack (expected {}, got {})"

TooManyFmt == "too many values to unpack (expected {})"

NoSplitFmt == "'{}' object has no attribute 'split'"

FormatFmt == "Time string must be in HH:MM:SS format"

\* hours, minutes, seconds = map(int, pieces): map is lazy, so the pieces
\* are converted one at a time while the unpacking asks for them: three
\* targets, then one more request to see that the iterator is exhausted.
\* [exc, vals]
UnpackInts(pieces) ==
  LET n == Len(pieces)
      bad == {i \in 1..n : i <= UnpackCount + 1 /\ ~IntParse(pieces[i]).ok}
      firstBad == CHOOSE i \in bad : \A j \in bad : i <= j
      literal(i) == Exc("ValueError", LiteralFmt, <<pieces[i]>>, <<>>)
  IN  IF bad # {} /\ firstBad <= UnpackCount
        THEN [exc |-> literal(firstBad), vals |-> <<>>]
      ELSE IF n < UnpackCount
        THEN [exc |-> Exc("ValueError", NotEnoughFmt, <<UnpackCount, n>>, <<>>),
              vals |-> <<>>]
      ELSE IF bad # {}
        THEN [exc |-> literal(firstBad), vals |-> <<>>]
      ELSE IF n > UnpackCount
        THEN [exc |-> Exc("ValueError", TooManyFmt, <<UnpackCount>>, <<>>),
              vals |-> <<>>]
      ELSE [exc |-> NoExc, vals |-> [i \in 1..UnpackCount |-> IntParse(pieces[i]).val]]

\* the try block of from_string: [exc, total]
FromStringTry(time_str) ==
  IF time_str.type # "str"
    THEN [exc |-> Exc("AttributeError", NoSplitFmt, <<time_str.type>>, <<>>),
          total |-> -1]
  ELSE LET u == UnpackInts(Split(time_str.val))
       IN  IF u.exc.type # "None" THEN [exc |-> u.exc, total |-> -1]
           ELSE TimeInit(u.vals[1], u.vals[2], u.vals[3])

\* the handler raising "from None": the original error is dropped
TimeFromStringNoCause(time_str) ==
  LET r == FromStringTry(time_str)
  IN  IF r.exc.type # "None" /\ r.exc.type \in {"ValueError", "AttributeError"}
        THEN [exc |-> Exc("ValueError", FormatFmt, <<>>, <<>>), total |-> -1]
        ELSE r

\* except (ValueError, AttributeError) as e: raise ValueError(...) from e
TimeFromString(time_str) ==
  LET r == FromStringTry(time_str)
  IN  IF r.exc.type # "None" /\ r.exc.type \in {"ValueError", "AttributeError"}
        THEN [exc |-> Exc("ValueError", FormatFmt, <<>>, <<r.exc>>), total |-> -1]
        ELSE r

(* ----------------------------- arithmetic ------------------------------ *)

AddTypeFmt == "Unsupported operand type(s) for +: 'Time' and '{}'"

SubTypeFmt == "Unsupported operand type(s) for -: 'Time' and '{}'"

\* __add__: [exc, total]; h is the heap, self the receiver's slot
TimeAdd(h, self, other) ==
  IF IsTime(other)
    THEN TimeFromSeconds(PyMod(self + h[other.val], SecondsPerDay))
  ELSE IF IsInt(other)
    THEN TimeFromSeconds(PyMod(self + IntOf(other), SecondsPerDay))
  ELSE [exc |-> Exc("TypeError", AddTypeFmt, <<other.type>>, <<>>), total |-> -1]

\* __sub__ with the operands the wrong way round
TimeSubSwapped(h, self, other) ==
  IF IsTime(other)
    THEN TimeFromSeconds(PyMod(h[other.val] - self, SecondsPerDay))
  ELSE IF IsInt(other)
    THEN TimeFromSeconds(PyMod(IntOf(other) - self, SecondsPerDay))
  ELSE [exc |-> Exc("TypeError", SubTypeFmt, <<other.type>>, <<>>), total |-> -1]

\* __sub__: [exc, total]
TimeSub(h, self, other) ==
  IF IsTime(other)
    THEN TimeFromSeconds(PyMod(self - h[other.val], SecondsPerDay))
  ELSE IF IsInt(other)
    THEN TimeFromSeconds(PyMod(self - IntOf(other), SecondsPerDay))
  ELSE [exc |-> Exc("TypeError", SubTypeFmt, <<other.type>>, <<>>), total |-> -1]

(* ----------------------------- comparison ------------------------------ *)

\* what a rich-comparison method hands back: NotImplemented, or a bool
NotImplemented == [ni |-> TRUE, val |-> FALSE]

Bool(b) == [ni |-> FALSE, val |-> b]

\* __eq__
TimeEq(h, self, other) ==
  IF ~IsTime(other) THEN NotImplemented ELSE Bool(self = h[other.val])

\* __lt__ with <= in place of <
TimeLtOrEqual(h, self, other) ==
  IF ~IsTime(other) THEN NotImplemented ELSE Bool(self <= h[other.val])

\* __lt__
TimeLt(h, self, other) ==
  IF ~IsTime(other) THEN NotImplemented ELSE Bool(self < h[other.val])

\* self == other: __eq__, and when both sides decline, identity (the
\* operand is another object, so False)
OpEq(h, self, other) ==
  LET r == TimeEq(h, self, other) IN IF r.ni THEN FALSE ELSE r.val

\* self != other: the inherited __ne__ inverts __eq__; when both sides
\* decline, non-identity (True)
OpNe(h, self, other) ==
  LET r == TimeEq(h, self, other) IN IF r.ni THEN TRUE ELSE ~r.val

\* @total_ordering fills in __le__, __gt__ and __ge__ from __lt__
TimeLe(h, self, other) ==
  LET r == TimeLt(h, self, other)
  IN  IF r.ni THEN r ELSE Bool(r.val \/ OpEq(h, self, other))

TimeGt(h, self, other) ==
  LET r == TimeLt(h, self, other)
  IN  IF r.ni THEN r ELSE Bool(~r.val /\ OpNe(h, self, other))

TimeGe(h, self, other) ==
  LET r == TimeLt(h, self, other)
  IN  IF r.ni THEN r ELSE Bool(~r.val)

OrderTypeFmt == "'{}' not supported between instances of 'Time' and '{}'"

\* an ordering operator: NotImplemented from the method (the other side,
\* not a Time, declines too) ends in a TypeError
OrderOutcome(op, sym, args, r, other) ==
  IF r.ni THEN Raised(op, args, Exc("TypeError", OrderTypeFmt, <<sym, other.type>>, <<>>))
  ELSE Returned(op, args, r.val)

\* __hash__: hash(int) is the int itself for the values a slot can hold
\* (-1 is the one small int that hashes elsewhere)
TimeHash(total) == IF total = -1 THEN -2 ELSE total

(* ------------------------------- inputs -------------------------------- *)

Refs(h) == {PyTime(i) : i \in 1..Len(h)}

\* component triples the object-level specification constructs from
Triples == {<<0, 0, 1>>, <<23, 59, 59>>, <<24, 60, 60>>, <<0, 60, 60>>, <<0, 0, -1>>}

SecondCounts == {1, SecondsPerDay, -1}

IntOperands == {PyInt(-1), PyInt(SecondsPerDay + 1), PyBool(TRUE)}

OtherOperands == {PyStr(<<"1">>)}

Texts == {<<"2", "3", ":", "5", "9", ":", "5", "9">>,
          <<"2", "4", ":", "0", "0", ":", "0", "0">>,
          <<"1", ":", "2">>}

(* ------------------------------- actions ------------------------------- *)

\* a call that builds an instance: on success the new object joins the
\* heap and is the value returned; on failure nothing comes into being
Construct(op, args, r) ==
  IF r.exc.type = "None"
    THEN /\ heap' = Append(heap, r.total)
         /\ res' = Returned(op, args, Len(heap) + 1)
    ELSE /\ heap' = heap
         /\ res' = Raised(op, args, r.exc)

\* Time(hours, minutes, seconds)
New(h, m, s) == Construct("Time", <<h, m, s>>, TimeInit(h, m, s))

\* Time.from_seconds(total_seconds)
FromSeconds(x) == Construct("from_seconds", <<x>>, TimeFromSeconds(x))

\* Time.from_string(time_str)
FromString(ts) == Construct("from_string", <<ts>>, TimeFromString(ts))

\* + written as an update of the receiver, which is then returned
AddInPlace(i, o) ==
  LET r == TimeAdd(heap, heap[i], o)
  IN  IF r.exc.type = "None"
        THEN /\ heap' = [heap EXCEPT ![i] = r.total]
             /\ res' = Returned("add", <<i, o>>, i)
        ELSE /\ heap' = heap
             /\ res' = Raised("add", <<i, o>>, r.exc)

\* heap[i] + o
Add(i, o) == Construct("add", <<i, o>>, TimeAdd(heap, heap[i], o))

\* heap[i] - o
Sub(i, o) == Construct("sub", <<i, o>>, TimeSub(heap, heap[i], o))

\* a call that only reads
Query(r) == /\ res' = r
            /\ UNCHANGED heap

GetHours(i) == Query(Returned("hours", <<i>>, hours(heap[i])))

GetMinutes(i) == Query(Returned("minutes", <<i>>, minutes(heap[i])))

GetSeconds(i) == Query(Returned("seconds", <<i>>, seconds(heap[i])))

ToSeconds(i) == Query(Returned("to_seconds", <<i>>, to_seconds(heap[i])))

ToTuple(i) == Query(Returned("to_tuple", <<i>>, to_tuple(heap[i])))

Str(i) == Query(Returned("str", <<i>>, TimeStr(heap[i])))

Hash(i) == Query(Returned("hash", <<i>>, TimeHash(heap[i])))

Eq(i, o) == Query(Returned("eq", <<i, o>>, OpEq(heap, heap[i], o)))

Ne(i, o) == Query(Returned("ne", <<i, o>>, OpNe(heap, heap[i], o)))

Lt(i, o) == Query(OrderOutcome("lt", "<", <<i, o>>, TimeLt(heap, heap[i], o), o))

Le(i, o) == Query(OrderOutcome("le", "<=", <<i, o>>, TimeLe(heap, heap[i], o), o))

Gt(i, o) == Query(OrderOutcome("gt", ">", <<i, o>>, TimeGt(heap, heap[i], o), o))

Ge(i, o) == Query(OrderOutcome("ge", ">=", <<i, o>>, TimeGe(heap, heap[i], o), o))

(* ------------------- the object-level specification -------------------- *)

Init == /\ heap = <<>>
        /\ res = NoCall

Room == Len(heap) < MaxObjs

Objs == 1..Len(heap)

Operands == Refs(heap) \cup IntOperands \cup OtherOperands

Comparands == Refs(heap) \cup OtherOperands

Next ==
  \/ \E t \in Triples : Room /\ New(t[1], t[2], t[3])
  \/ \E x \in SecondCounts : Room /\ FromSeconds(x)
  \/ \E ts \in Texts : Room /\ FromString(PyStr(ts))
  \/ \E i \in Objs, o \in Operands : Room /\ Add(i, o)
  \/ \E i \in Objs, o \in Operands : Room /\ Sub(i, o)
  \/ \E i \in Objs : GetHours(i)
  \/ \E i \in Objs : GetMinutes(i)
  \/ \E i \in Objs : GetSeconds(i)
  \/ \E i \in Objs : ToSeconds(i)
  \/ \E i \in Objs : ToTuple(i)
  \/ \E i \in Objs : Str(i)
  \/ \E i \in Objs : Hash(i)
  \/ \E i \in Objs, o \in Comparands : Eq(i, o)
  \/ \E i \in Objs, o \in Comparands : Ne(i, o)
  \/ \E i \in Objs, o \in Comparands : Lt(i, o)
  \/ \E i \in Objs, o \in Comparands : Le(i, o)
  \/ \E i \in Objs, o \in Comparands : Gt(i, o)
  \/ \E i \in Objs, o \in Comparands : Ge(i, o)

Spec == Init /\ [][Next]_vars

(* ------------------- the single-call specification --------------------- *)
(* The first constructor call of a program, with the arguments drawn from  *)
(* every value in and around the valid ranges; then the text of the        *)
(* instance made is parsed back.                                           *)

AllHours == (0 - Slack)..(MaxHours + Slack)

AllMinutes == (0 - Slack)..(MaxMinutes + Slack)

AllSeconds == (0 - Slack)..(MaxSeconds + Slack)

AllCounts == (0 - Slack)..(SecondsPerDay - 1 + Slack)

\* what may stand between two colons
FieldTexts == {<<"1">>, <<"2">>, <<"3">>, <<"0", "1">>, <<"2", "4">>, <<"6", "0">>,
               <<"a">>, <<>>, <<" ", "7">>, <<"-", "1">>, <<"1", "_", "0">>}

RECURSIVE Join(_)
Join(fields) ==
  IF Len(fields) = 1 THEN fields[1]
  ELSE fields[1] \o <<":">> \o Join(Tail(fields))

NotTexts == {PyInt(10203), PyNone}

\* no call made yet
Fresh == res.op = "none"

NextCall ==
  \/ Fresh /\ \E h \in AllHours, m \in AllMinutes, s \in AllSeconds : New(h, m, s)
  \/ Fresh /\ \E x \in AllCounts : FromSeconds(x)
  \/ Fresh /\ \E k \in 1..MaxFields : \E f \in [1..k -> FieldTexts] :
       FromString(PyStr(Join(f)))
  \/ Fresh /\ \E v \in NotTexts : FromString(v)
  \/ Len(heap) = 1 /\ FromString(PyStr(TimeStr(heap[1])))

SpecCall == Init /\ [][NextCall]_vars

(* ============================== claims ================================= *)

Constructors == {"Time", "from_seconds", "from_string"}

InRange(h, m, s) == h \in 0..23 /\ m \in 0..59 /\ s \in 0..59

\* the seconds an operand of + or - stands for
OperandSeconds(o) == IF o.type = "Time" THEN heap[o.val] ELSE IntOf(o)

\* r is the residue of n on the clock face: in [0, 86400) and a whole number
\* of days away from n
OnClockFace(r, n) ==
  /\ r \in 0..86399
  /\ \E k \in -3..3 : n = r + k * 86400

(* C1: whatever constructions and + / - operations have run, every Time    *)
(* instance that exists holds an integer total_seconds in [0, 86400), and  *)
(* a call that raises leaves the set of instances as it was.               *)
C1_ValidInstances ==
  /\ [](\A i \in 1..Len(heap) : heap[i] \in Int /\ 0 <= heap[i] /\ heap[i] < 86400)
  /\ [][res'.status = "raise" => heap' = heap]_vars

\* a construction has just failed in a program that holds a sum wrapped to
\* midnight
C1_Witness ==
  /\ res.op \in Constructors /\ res.status = "raise"
  /\ Len(heap) >= 2 /\ heap[Len(heap)] = 0

(* C2: for h in [0,23], m in [0,59], s in [0,59], Time(h,m,s) succeeds,    *)
(* to_seconds() is h*3600 + m*60 + s, and hours, minutes, seconds and      *)
(* to_tuple give back exactly (h, m, s).                                   *)
C2_Components ==
  (res.op = "Time" /\ InRange(res.args[1], res.args[2], res.args[3])) =>
     /\ res.status = "ok"
     /\ to_seconds(heap[res.value])
          = res.args[1] * 3600 + res.args[2] * 60 + res.args[3]
     /\ hours(heap[res.value]) = res.args[1]
     /\ minutes(heap[res.value]) = res.args[2]
     /\ seconds(heap[res.value]) = res.args[3]
     /\ to_tuple(heap[res.value]) = res.args

C2_Witness == res.op = "Time" /\ res.args = <<23, 59, 59>> /\ res.status = "ok"

(* C3: Time(h,m,s) with any component out of range raises a range error    *)
(* that names the first offending field in the order hours, minutes,       *)
(* seconds, with that field's bounds and the value supplied.               *)
C3_RangeError ==
  (res.op = "Time" /\ ~InRange(res.args[1], res.args[2], res.args[3])) =>
     /\ res.status = "raise"
     /\ res.exc.type = "ValueError"
     /\ res.exc.msg.fmt = RangeFmt
     /\ res.exc.msg.args =
          IF res.args[1] \notin 0..23 THEN <<"hours", 0, 23, res.args[1]>>
          ELSE IF res.args[2] \notin 0..59 THEN <<"minutes", 0, 59, res.args[2]>>
          ELSE <<"seconds", 0, 59, res.args[3]>>
     /\ heap = <<>>

\* Time(0,60,60): minutes and seconds are both out of range, minutes is named
C3_Witness ==
  /\ res.op = "Time" /\ res.args = <<0, 60, 60>> /\ res.status = "raise"
  /\ res.exc.msg.args[1] = "minutes"

(* C4: from_seconds(x) succeeds exactly when 0 <= x < 86400; then          *)
(* to_seconds() is x and to_tuple() is (x div 3600, (x mod 3600) div 60,   *)
(* x mod 60); for any other x it raises a range error and no instance      *)
(* comes into being.                                                       *)
C4_FromSeconds ==
  res.op = "from_seconds" =>
    IF 0 <= res.args[1] /\ res.args[1] < 86400
      THEN /\ res.status = "ok"
           /\ to_seconds(heap[res.value]) = res.args[1]
           /\ to_tuple(heap[res.value])
                = <<res.args[1] \div 3600, (res.args[1] % 3600) \div 60,
                    res.args[1] % 60>>
      ELSE /\ res.status = "raise"
           /\ res.exc.type = "ValueError"
           /\ heap = <<>>

C4_Witness == res.op = "from_seconds" /\ res.args = <<86399>> /\ res.status = "ok"

\* the text does not split into exactly three fields that int() accepts
Malformed(text) ==
  LET pieces == Split(text)
  IN  Len(pieces) # 3 \/ \E i \in 1..Len(pieces) : ~IntParse(pieces[i]).ok

\* the three integers a well-formed text spells
Parsed(text) == [i \in 1..3 |-> IntParse(Split(text)[i]).val]

(* C5: from_string fails in two ways the caller can tell apart: malformed  *)
(* text (not three colon-separated fields, or a field that is no integer)  *)
(* and a field out of range; both surface as a ValueError with the same    *)
(* message, and the error's __cause__ tells which: an unpacking or literal *)
(* error for malformed text, the constructor's range error (field, bounds, *)
(* value) for an out-of-range field.                                       *)
C5_Distinguishable ==
  (res.op = "from_string" /\ res.args[1].type = "str") =>
    LET text == res.args[1].val
    IN  IF Malformed(text)
          THEN /\ res.status = "raise"
               /\ res.exc.type = "ValueError"
               /\ Len(res.exc.cause) = 1
               /\ res.exc.cause[1].type = "ValueError"
               /\ res.exc.cause[1].msg.fmt \in {LiteralFmt, NotEnoughFmt, TooManyFmt}
        ELSE IF ~InRange(Parsed(text)[1], Parsed(text)[2], Parsed(text)[3])
          THEN /\ res.status = "raise"
               /\ res.exc.type = "ValueError"
               /\ Len(res.exc.cause) = 1
               /\ res.exc.cause[1].type = "ValueError"
               /\ res.exc.cause[1].msg.fmt = RangeFmt
               /\ res.exc.cause[1].msg.args[1] \in {"hours", "minutes", "seconds"}
        ELSE res.status = "ok"

\* from_string("24:01:01") has raised, and the cause names hours
C5_Witness ==
  /\ res.op = "from_string" /\ res.status = "raise"
  /\ res.args[1].type = "str"
  /\ res.args[1].val = <<"2", "4", ":", "0", "1", ":", "0", "1">>
  /\ res.exc.cause[1].msg.args = <<"hours", 0, 23, 24>>

(* C6: from_string(str(t)) succeeds and equals t for every Time t, and     *)
(* from_string("1:2:3"), fields not zero-padded, equals Time(1,2,3).       *)
C6_RoundTrip ==
  /\ (res.op = "from_string" /\ Len(heap) >= 1
        /\ (res.status = "raise" \/ Len(heap) = 2)) =>
       /\ res.args[1] = PyStr(TimeStr(heap[1]))
       /\ res.status = "ok"
       /\ res.value = 2
       /\ heap[2] = heap[1]
       /\ OpEq(heap, heap[2], PyTime(1))
  /\ (res.op = "from_string" /\ res.args[1].type = "str"
        /\ res.args[1].val = <<"1", ":", "2", ":", "3">>) =>
       /\ res.status = "ok"
       /\ heap[res.value] = 1 * 3600 + 2 * 60 + 3

\* the text of 23:59:59 has been parsed back into a second instance
C6_Witness ==
  /\ res.op = "from_string" /\ res.status = "ok"
  /\ heap = <<86399, 86399>>

C8_Comparison ==
  /\ (res.op \in {"eq", "ne", "lt", "le", "gt", "ge"} /\ res.args[2].type = "Time") =>
       LET a == heap[res.args[1]]
           b == heap[res.args[2].val]
       IN  /\ res.status = "ok"
           /\ res.value = CASE res.op = "eq" -> a = b
                            [] res.op = "ne" -> a # b
                            [] res.op = "lt" -> a < b
                            [] res.op = "le" -> a <= b
                            [] res.op = "gt" -> a > b
                            [] res.op = "ge" -> a >= b
  /\ (res.op = "eq" /\ res.args[2].type # "Time") =>
       res.status = "ok" /\ res.value = FALSE
  /\ \A i \in 1..Len(heap), j \in 1..Len(heap) :
       /\ Cardinality({r \in {"lt", "eq", "gt"} :
             CASE r = "lt" -> TimeLt(heap, heap[i], PyTime(j)).val
               [] r = "eq" -> OpEq(heap, heap[i], PyTime(j))
               [] r = "gt" -> TimeGt(heap, heap[i], PyTime(j)).val}) = 1
       /\ OpEq(heap, heap[i], PyTime(j)) => TimeHash(heap[i]) = TimeHash(heap[j])
  /\ res.op = "hash" =>
       \A j \in 1..Len(heap) :
         OpEq(heap, heap[res.args[1]], PyTime(j)) => res.value = TimeHash(heap[j])

\* two distinct instances with the same total_seconds compared with <=
C8_Witness ==
  /\ res.op = "le" /\ res.status = "ok" /\ res.args[2].type = "Time"
  /\ res.args[1] # res.args[2].val
  /\ heap[res.args[1]] = heap[res.args[2].val]
  /\ res.value = TRUE

(* C9: no operation changes an instance that exists: across every call,    *)
(* whether it returns or raises, each instance keeps its total_seconds,    *)
(* and a + or - that returns hands back an instance that did not exist     *)
(* before.                                                                 *)
C9_NoMutation ==
  [][/\ \A i \in 1..Len(heap) : Len(heap') >= i /\ heap'[i] = heap[i]
     /\ (res'.op \in {"add", "sub"} /\ res'.status = "ok") =>
          res'.value \notin 1..Len(heap)]_vars

\* t + o has returned a third instance for two Time operands
C9_Witness ==
  /\ res.op = "add" /\ res.status = "ok" /\ res.args[2].type = "Time"
  /\ res.args[1] # res.args[2].val
  /\ res.value \notin {res.args[1], res.args[2].val}
  /\ heap[res.args[1]] = 86399

====
